---- MODULE Spec2Model ----
(***************************************************************************)
(* Model of meta.py ("Album Metadatiser"): the bounded fuzzy matcher, the  *)
(* candidate selector, the interactive review loop and the write phase.    *)
(* Python strings are sequences of one-character strings; a dict is a      *)
(* function whose DOMAIN is its key set; tuples and lists are sequences.   *)
(***************************************************************************)
EXTENDS Integers, Sequences, FiniteSets, TLC

VARIABLES
    \* one call of matchStrings
    string, pattern, result, mpc,
    \* one call of identifyTrackFromFilePath, a step per title of the tracklist
    stem, tracklist, tIdx, bestTitleGuess, bestMatch, ipc,
    \* one call of writeMetadata
    wmStored, wmMetadata, wmTagsToRemove, wmOut, wpc,
    \* applyMetadataFromAlbumFileInteractively: its arguments and locals
    options, album, paths, tagsToRemove, tagsToChange, pathTitleMatches, counter, widx,
    \* where the run is, and the control-flow exception that ended the review
    pc, raised,
    \* the review: the prompt at which it ended, the candidate selected, the number
    \* the title prompt returned in this pass of the loop (-1: none), the last
    \* listing and the last single candidate displayed
    raisedAt, choice, trackChoice, listing, shown,
    \* the tag store: the tags of each file; the files writeMetadata was called on
    \* in this run; the changed-file count reported by each finished run
    store, writeCalls, reports,
    \* when the command is run again: the candidates the write phase of the
    \* last run that reached it went over
    finalized

matchVars == <<string, pattern, result, mpc>>
identVars == <<stem, tracklist, tIdx, bestTitleGuess, bestMatch, ipc>>
wmVars == <<wmStored, wmMetadata, wmTagsToRemove, wmOut, wpc>>
inputVars == <<options, album, paths, tagsToRemove, tagsToChange>>
consoleVars == <<raisedAt, choice, trackChoice, listing, shown>>
writeVars == <<counter, widx, store, writeCalls, reports>>
appVars == <<inputVars, pathTitleMatches, pc, raised, consoleVars, writeVars, finalized>>
vars == <<matchVars, identVars, wmVars, appVars>>

\* what a step of one component leaves alone
exceptMatch == <<identVars, wmVars, appVars>>
exceptIdent == <<matchVars, wmVars, appVars>>
exceptWm == <<matchVars, identVars, appVars>>
exceptApp == <<matchVars, identVars, wmVars, finalized>>

-----------------------------------------------------------------------------
(* Bounds of the model *)

MaxStrLen == 4
MaxTracks == 2
NumFiles == 2
MaxRuns == 2

MatchAlphabet == {"a", "b"}

StringsUpTo(alphabet, n) == UNION {[1..k -> alphabet] : k \in 0..n}

\* file stems, written as in the directory
IdentStems == {
    <<"a", "b", "-", "c", "d">>,
    <<"A", "b", "C", "a">>,
    <<"a", "_", "b">>,
    <<"b">>,
    <<"-">> }

\* titles, written as in the tracklist
IdentTitles == {
    <<"a", "b">>,
    <<"A", " ", "B">>,
    <<"c", "d">>,
    <<"a", "b", "c">>,
    <<"b", "c", "d">>,
    <<"a", "b", "c", "d">>,
    <<"d", "c", "b", "a">>,
    <<"a", "a", "a">>,
    <<"d", "d", "d">>,
    <<"a", "b", "c", "d", "a">>,
    <<"(", "-", ")">> }

\* the non-empty lists of at most n titles
TracklistsOf(titles, n) == UNION {[1..k -> titles] : k \in 1..n}

\* the strings of a run of the whole program
ArtistName == <<"a", "r", "t">>
AlbumName == <<"a", "l", "b">>
GivenValue == <<"g", "i", "v">>
DirName == <<"d", "i", "r">>
SubDirName == <<"s", "u", "b">>
OldValue == <<"o", "l", "d">>

AppTitles == {<<"A", "b">>, <<"c", "d", "e">>}

AppStems == {<<"a", "b">>, <<"x">>, <<"c", "d", "-", "e">>, <<"-">>}

AllTags == {"title", "tracknumber", "album", "albumartist", "artist"}

OptionValues == {[kind |-> "none", value |-> <<>>], [kind |-> "str", value |-> GivenValue],
                 [kind |-> "parent", value |-> <<>>], [kind |-> "remove", value |-> <<>>]}

\* every combination of the three per-tag options
AllOptions == [{"album", "albumartist", "artist"} -> OptionValues]

\* the options of the runs of the whole program: nothing given, one tag of
\* each kind, every tag removed
AppOptions ==
    {o \in AllOptions :
        \/ \A t \in DOMAIN o : o[t].kind = "none"
        \/ \A t \in DOMAIN o : o[t].kind = "remove"
        \/ o["album"].kind = "remove" /\ o["albumartist"].kind = "parent"
              /\ o["artist"].kind = "str"}

Mp3Suffix == <<".", "m", "p", "3">>

\* the lists of n different files of one directory, in any order
FileLists(stems, n) ==
    {[i \in 1..n |-> [dirs |-> <<DirName>>, name |-> f[i] \o Mp3Suffix]] :
        f \in {g \in [1..n -> stems] : \A i, j \in 1..n : i # j => g[i] # g[j]}}

\* two files found by a recursive glob, one of them in a subdirectory
NestedFiles ==
    << [dirs |-> <<DirName>>, name |-> <<"x">> \o Mp3Suffix],
       [dirs |-> <<DirName, SubDirName>>, name |-> <<"a", "b">> \o Mp3Suffix] >>

\* the files of a write phase: the first in the directory, the others in a
\* subdirectory of it
WriteFiles(n) ==
    [i \in 1..n |-> [dirs |-> IF i = 1 THEN <<DirName>> ELSE <<DirName, SubDirName>>,
                     name |-> <<"f", "i", "l", "e">> \o
                              <<<<"0", "1", "2", "3", "4", "5", "6", "7", "8", "9">>[i + 1]>>
                              \o Mp3Suffix]]

WriteTracklist == << <<"A", "b">>, <<"c", "d", "e">> >>

\* the tags of a file: none at all, every tag with an old value, or the tags
\* of the first track of the album
NoTags == <<>>
OldTags == [t \in AllTags |-> <<OldValue>>]
FirstTrackTags(alb) ==
    [t \in AllTags |->
        IF t = "title" THEN <<alb.tracklist[1]>>
        ELSE IF t = "tracknumber" THEN <<<<"1">>>>
        ELSE IF t = "album" THEN <<alb.album>>
        ELSE <<alb.artist, OldValue>>]

-----------------------------------------------------------------------------
(* Match and its sentinels: meta.py 16-28 *)

MAX_NUMBER_OF_MISSES == 2

Match(start, length, misses) ==
    [start |-> start, length |-> length, misses |-> misses]

\* Match.__eq__ compares start and length only
MatchEq(m1, m2) == m1.start = m2.start /\ m1.length = m2.length

USER_DEF_MATCH == Match(-1, -1, <<>>)
NO_MATCH == Match(0, 0, <<>>)

-----------------------------------------------------------------------------
(* The matcher: meta.py 191-212 *)

RECURSIVE MismatchedFrom(_, _, _)
MismatchedFrom(a, b, i) ==
    IF i > Len(a) THEN <<>>
    ELSE (IF a[i] # b[i] THEN <<i - 1>> ELSE <<>>) \o MismatchedFrom(a, b, i + 1)

\* indices (0-based, increasing) at which two equal-length strings differ
FindMismatchedCharIndices(a, b) == MismatchedFrom(a, b, 1)

\* string[offset:offset + n]
Window(str, offset, n) == SubSeq(str, offset + 1, offset + n)

OffsetAcceptedOff(mismatchedCharIdxs) == Len(mismatchedCharIdxs) < MAX_NUMBER_OF_MISSES

\* the acceptance test of one window
OffsetAccepted(mismatchedCharIdxs) == Len(mismatchedCharIdxs) <= MAX_NUMBER_OF_MISSES

LastOffsetShort(str, pat) == Len(str) - Len(pat) - 1

\* the last offset of range(len(string) - len(pattern) + 1)
LastOffset(str, pat) == Len(str) - Len(pat)

RECURSIVE ScanOffsets(_, _, _)
ScanOffsets(str, pat, offset) ==
    IF offset > LastOffset(str, pat) THEN NO_MATCH
    ELSE LET windowedString == Window(str, offset, Len(pat))
             mismatchedCharIdxs == FindMismatchedCharIndices(windowedString, pat)
         IN  IF OffsetAccepted(mismatchedCharIdxs)
             THEN Match(offset, Len(pat),
                        [i \in 1..Len(mismatchedCharIdxs) |-> mismatchedCharIdxs[i] + offset])
             ELSE ScanOffsets(str, pat, offset + 1)

\* the two assertions that open matchStrings
MatchStringsAsserts(str, pat) == Len(str) > 0 /\ Len(pat) > 0

MatchStrings(str, pat) ==
    IF Len(pat) > Len(str) THEN NO_MATCH ELSE ScanOffsets(str, pat, 0)

-----------------------------------------------------------------------------
(* The normaliser: meta.py 176-185 *)

SKIPPABLE_CHARS == {"(", ")", "[", "]", "{", "}", "-", "_"}

\* the ASCII characters for which str.isspace() is true: space, \t, \n, \r, \f,
\* the vertical tab and the separators 0x1c-0x1f (the last five written raw)
WhitespaceChars == {" ", "\t", "\n", "\r", "\f", "", "", "", "", ""}

UpperCaseLetters == <<"A", "B", "C", "D", "E", "F", "G", "H", "I", "J", "K", "L", "M",
                      "N", "O", "P", "Q", "R", "S", "T", "U", "V", "W", "X", "Y", "Z">>

LowerCaseLetters == <<"a", "b", "c", "d", "e", "f", "g", "h", "i", "j", "k", "l", "m",
                      "n", "o", "p", "q", "r", "s", "t", "u", "v", "w", "x", "y", "z">>

\* str.lower() on one character
LowerChar(ch) ==
    IF \E i \in 1..Len(UpperCaseLetters) : UpperCaseLetters[i] = ch
    THEN LowerCaseLetters[CHOOSE i \in 1..Len(UpperCaseLetters) : UpperCaseLetters[i] = ch]
    ELSE ch

IsSkippableChar(ch) == ch \in WhitespaceChars \/ ch \in SKIPPABLE_CHARS

Unskippable(ch) == ~IsSkippableChar(ch)

LowercaseSkippedString(str) ==
    SelectSeq([i \in 1..Len(str) |-> LowerChar(str[i])], Unskippable)

-----------------------------------------------------------------------------
(* The candidate selector: meta.py 214-240 *)

\* str|None
None == <<>>
Some(x) == <<x>>

Best(title, match) == [bestTitleGuess |-> title, bestMatch |-> match]

RuleLongerOrEqual(match, best) ==
    match.length >= best.length /\ Len(match.misses) <= Len(best.misses)

\* line 225
RuleLonger(match, best) ==
    match.length > best.length /\ Len(match.misses) <= Len(best.misses)

RuleFewerMissesOrEqual(match, best) == Len(match.misses) <= Len(best.misses)

\* line 230
RuleFewerMisses(match, best) == Len(match.misses) < Len(best.misses)

\* line 235
RuleNoBestYet(best) == MatchEq(best, NO_MATCH)

\* the body of the loop over the tracklist, for one title
IdentifyStep(best, title, file) ==
    LET skippedTitle == LowercaseSkippedString(title)
        match == MatchStrings(file, skippedTitle)
    IN  IF MatchEq(match, NO_MATCH) THEN best
        ELSE IF RuleLonger(match, best.bestMatch) THEN Best(Some(title), match)
        ELSE IF RuleFewerMisses(match, best.bestMatch) THEN Best(Some(title), match)
        ELSE IF RuleNoBestYet(best.bestMatch) THEN Best(Some(title), match)
        ELSE best

\* matchStrings' assertions hold for the call made for this title
TitleAsserts(file, title) == MatchStringsAsserts(file, LowercaseSkippedString(title))

-----------------------------------------------------------------------------
(* Candidates and options: meta.py 10-14, 30-64, 79-85, 138-155, 418-428 *)

AlbumMetadata(artist, albumTitle, titles) ==
    [artist |-> artist, album |-> albumTitle, tracklist |-> titles]

\* a path: the directories from the working directory down, and the file name
Path(dirs, name) == [dirs |-> dirs, name |-> name]

\* path.parts
PathParts(path) == path.dirs \o <<path.name>>

\* path.stem: the name without its suffix; a dot that begins or ends the name
\* starts no suffix
PathStem(path) ==
    LET dots == {i \in 1..Len(path.name) : path.name[i] = "."}
        last == IF dots = {} THEN 0 ELSE CHOOSE i \in dots : \A j \in dots : j <= i
    IN  IF 1 < last /\ last < Len(path.name) THEN SubSeq(path.name, 1, last - 1)
        ELSE path.name

PathTitleMatch(path, match, title) == [path |-> path, match |-> match, title |-> title]

\* PathTitleMatch.__bool__
PtmBool(ptm) == Len(ptm.title) # 0

\* MetadataOpt and its four kinds of value
MetadataOpt(value) == [kind |-> "str", value |-> value]
OPT_NOT_SET == [kind |-> "none", value |-> <<>>]
USE_PARENT_DIRECTORY == [kind |-> "parent", value |-> <<>>]
REMOVE_TAG == [kind |-> "remove", value |-> <<>>]

\* MetadataOpt.__bool__
OptBool(opt) == opt.kind # "none"

SUPPORTED_TAGS == <<"artist", "albumartist", "album">>

\* the keys of the options dict, in the order main() inserts them
OPTION_KEYS == <<"album", "albumartist", "artist">>

ResolveParentDirectory(path) == path.dirs[Len(path.dirs)]

ResolveMetadataOptWithParent(opt, parent) ==
    IF opt.kind = "parent" THEN parent ELSE opt.value

ResolveOptionsWithParent(opts, parent) ==
    [tag \in DOMAIN opts |-> ResolveMetadataOptWithParent(opts[tag], parent)]

DoesSpecifyValueAny(opt) == opt.kind # "none"

\* lines 149-150
DoesSpecifyValue(opt) == opt.kind = "str" \/ opt.kind = "parent"

ExtractTagsToChange(opts) ==
    [tag \in {t \in DOMAIN opts : DoesSpecifyValue(opts[t])} |-> opts[tag]]

IsRemoveOpt(opt) == opt.kind = "remove"

\* the keys of a dict of options, in insertion order
KeysInOrder(opts) ==
    LET Present(tag) == tag \in DOMAIN opts IN SelectSeq(OPTION_KEYS, Present)

ExtractTagsToRemove(opts) ==
    LET Removed(tag) == IsRemoveOpt(opts[tag]) IN SelectSeq(KeysInOrder(opts), Removed)

\* the album's value for a tag the options leave unset
AlbumDefault(alb, tag) ==
    IF tag = "album" THEN alb.album ELSE alb.artist

ResolveAlbumMetadata(alb, opts) ==
    [tag \in DOMAIN opts |->
        IF ~OptBool(opts[tag]) THEN MetadataOpt(AlbumDefault(alb, tag)) ELSE opts[tag]]

-----------------------------------------------------------------------------
(* Track metadata: meta.py 404-416 *)

DigitChars == <<"0", "1", "2", "3", "4", "5", "6", "7", "8", "9">>

\* str(n) for n >= 0
RECURSIVE Str(_)
Str(n) ==
    IF n < 10 THEN <<DigitChars[n + 1]>>
    ELSE Str(n \div 10) \o <<DigitChars[(n % 10) + 1]>>

\* list.index(title), 0-based: the first position that holds the title
ListIndex(list, x) ==
    (CHOOSE i \in 1..Len(list) : list[i] = x /\ \A j \in 1..(i - 1) : list[j] # x) - 1

FindTracknumber(title, alb) == Str(ListIndex(alb.tracklist, title) + 1)

ResolveTrackMetadataFromMatch(ptm, alb) ==
    ("title" :> ptm.title) @@ ("tracknumber" :> FindTracknumber(ptm.title, alb))

\* {**a, **b}
DictMerge(a, b) == b @@ a

\* the metadata dict built for one file in the write phase (lines 549-552)
FileMetadata(ptm, alb, toChange) ==
    DictMerge(ResolveTrackMetadataFromMatch(ptm, alb),
              ResolveOptionsWithParent(toChange, ResolveParentDirectory(ptm.path)))

-----------------------------------------------------------------------------
(* writeMetadata: meta.py 430-456.  An EasyID3 object is a dict from tag   *)
(* name to the list of the tag's values.                                   *)

\* the keys of the metadata dict, in insertion order
METADATA_KEYS == <<"title", "tracknumber", "album", "albumartist", "artist">>

MetadataKeysInOrder(metadata) ==
    LET Present(tag) == tag \in DOMAIN metadata IN SelectSeq(METADATA_KEYS, Present)

WriteState(audio, doWrite) == [audio |-> audio, doWrite |-> doWrite]

TagDiffersAlways(audio, tag, tagValue) == TRUE

\* lines 439-440: the planned value differs from the first stored value
TagDiffers(audio, tag, tagValue) ==
    ~(tag \in DOMAIN audio /\ audio[tag][1] = tagValue)

\* lines 437-444 for one tag
SetTagStep(st, tag, tagValue) ==
    IF ~TagDiffers(st.audio, tag, tagValue) THEN st
    ELSE WriteState((tag :> <<tagValue>>) @@ st.audio, TRUE)

RemoveTagKeepStep(st, tag) ==
    IF tag \notin DOMAIN st.audio THEN st
    ELSE WriteState(st.audio, TRUE)

\* lines 446-451 for one tag
RemoveTagStep(st, tag) ==
    IF tag \notin DOMAIN st.audio THEN st
    ELSE WriteState([t \in (DOMAIN st.audio) \ {tag} |-> st.audio[t]], TRUE)

RECURSIVE SetTags(_, _, _, _)
SetTags(st, metadata, keys, i) ==
    IF i > Len(keys) THEN st
    ELSE SetTags(SetTagStep(st, keys[i], metadata[keys[i]]), metadata, keys, i + 1)

RECURSIVE RemoveTags(_, _, _)
RemoveTags(st, toRemove, i) ==
    IF i > Len(toRemove) THEN st
    ELSE RemoveTags(RemoveTagStep(st, toRemove[i]), toRemove, i + 1)

\* lines 453-454: the number of calls of audio.save()
Saves(doWrite) == IF doWrite THEN 1 ELSE 0

\* the call's return value, its number of save() calls and the file's tags after it
WriteMetadata(stored, metadata, toRemove) ==
    LET afterSet == SetTags(WriteState(stored, FALSE), metadata,
                            MetadataKeysInOrder(metadata), 1)
        afterRemove == RemoveTags(afterSet, toRemove, 1)
    IN  [doWrite |-> afterRemove.doWrite,
         saves |-> Saves(afterRemove.doWrite),
         stored |-> IF Saves(afterRemove.doWrite) > 0 THEN afterRemove.audio ELSE stored]

-----------------------------------------------------------------------------
(* The whole selector, and the candidate made for one file: meta.py 214-240, *)
(* 528-534                                                                    *)

RECURSIVE IdentifyFrom(_, _, _, _)
IdentifyFrom(file, titles, i, best) ==
    IF i > Len(titles) THEN best
    ELSE IdentifyFrom(file, titles, i + 1, IdentifyStep(best, titles[i], file))

IdentifyTrackFromFilePath(fileStem, titles) ==
    IdentifyFrom(LowercaseSkippedString(fileStem), titles, 1, Best(None, NO_MATCH))

\* no call of matchStrings made for this file fails an assertion
IdentifyAsserts(fileStem, titles) ==
    \A i \in 1..Len(titles) : TitleAsserts(LowercaseSkippedString(fileStem), titles[i])

CandidateFor(path, titles) ==
    LET best == IdentifyTrackFromFilePath(PathStem(path), titles)
    IN  IF best.bestTitleGuess # None
        THEN PathTitleMatch(path, best.bestMatch, best.bestTitleGuess[1])
        ELSE PathTitleMatch(path, NO_MATCH, <<>>)

-----------------------------------------------------------------------------
(* Display: meta.py 268-294.  A printed line is recorded by its form: the    *)
(* plain "name -> title", the highlighted "name -> title", or "'name' will   *)
(* remain unchanged".                                                         *)

Line(form, path, title) == [form |-> form, path |-> path, title |-> title]

NothingShown == Line("none", Path(<<>>, <<>>), <<>>)

DisplayPathTitleMatch(ptm) ==
    IF MatchEq(ptm.match, USER_DEF_MATCH) THEN Line("name -> title", ptm.path, ptm.title)
    ELSE IF PtmBool(ptm) THEN Line("highlighted name -> title", ptm.path, ptm.title)
    ELSE Line("will remain unchanged", ptm.path, <<>>)

DisplayMatchSummary(ptms) == [i \in 1..Len(ptms) |-> DisplayPathTitleMatch(ptms[i])]

-----------------------------------------------------------------------------
(* Prompts: meta.py 304-378 *)

QUIT == "q"
CANCEL == "s"
DONE == "d"
QUIT_CANCEL == <<QUIT, CANCEL>>
QUIT_DONE == <<QUIT, DONE>>

\* ch in signal
InSignal(ch, signal) == \E i \in 1..Len(signal) : signal[i] = ch

LowerString(str) == [i \in 1..Len(str) |-> LowerChar(str[i])]

IsDigit(ch) == \E i \in 1..Len(DigitChars) : DigitChars[i] = ch

DigitValue(ch) == (CHOOSE i \in 1..Len(DigitChars) : DigitChars[i] = ch) - 1

RECURSIVE NatValue(_)
NatValue(digits) ==
    IF Len(digits) = 0 THEN 0
    ELSE NatValue(SubSeq(digits, 1, Len(digits) - 1)) * 10 + DigitValue(digits[Len(digits)])

AllDigits(str) == Len(str) > 0 /\ \A i \in 1..Len(str) : IsDigit(str[i])

\* int() first strips the whitespace around the literal: space, \t, \n, \r,
\* \f and the vertical tab, not the separators 0x1c-0x1f
IntWhitespaceChars == {" ", "\t", "\n", "\r", "\f", ""}

RECURSIVE StripWhitespace(_)
StripWhitespace(str) ==
    IF Len(str) = 0 THEN str
    ELSE IF str[1] \in IntWhitespaceChars THEN StripWhitespace(Tail(str))
    ELSE IF str[Len(str)] \in IntWhitespaceChars
         THEN StripWhitespace(SubSeq(str, 1, Len(str) - 1))
    ELSE str

\* the most digits int() converts (sys.int_info.default_max_str_digits)
INT_MAX_STR_DIGITS == 4300

\* the literal without its sign
Unsigned(str) == IF Len(str) > 0 /\ str[1] \in {"-", "+"} THEN Tail(str) ELSE str

\* decimal digits, with single underscores allowed between two digits
DigitsWithUnderscores(str) ==
    /\ Len(str) > 0
    /\ IsDigit(str[1])
    /\ IsDigit(str[Len(str)])
    /\ \A i \in 1..Len(str) :
          IsDigit(str[i]) \/ (str[i] = "_" /\ i > 1 /\ IsDigit(str[i - 1]))

\* int(response) does not raise ValueError: optional whitespace around an
\* optional sign followed by at most 4300 decimal digits
IsInt(str) ==
    /\ DigitsWithUnderscores(Unsigned(StripWhitespace(str)))
    /\ Len(SelectSeq(str, IsDigit)) <= INT_MAX_STR_DIGITS

IntValue(str) ==
    LET literal == StripWhitespace(str)
        n == NatValue(SelectSeq(Unsigned(literal), IsDigit))
    IN  IF literal[1] = "-" THEN 0 - n ELSE n

\* lines a user types at a prompt whose highest admissible number is upper
Responses(upper) ==
    {<<>>, <<"q">>, <<"Q">>, <<"x">>, <<"-", "1">>, <<"+", "1">>, <<" ", "1">>,
     <<"0", "_", "1">>, <<"1", "_">>}
        \cup {Str(n) : n \in 0..(upper + 1)}

Outcome(kind, n) == [kind |-> kind, choice |-> n]

\* one pass of promptBoundedInteger's loop on one line of input: the exception
\* raised, the choice returned, or another pass
PromptBoundedInteger(line, lower, upper, signal) ==
    IF line = <<>> /\ InSignal(CANCEL, signal) THEN Outcome("UserCancel", 0)
    ELSE IF line = <<>> /\ InSignal(DONE, signal) THEN Outcome("UserDone", 0)
    ELSE IF LowerString(line) = <<"q">> /\ InSignal(QUIT, signal) THEN Outcome("UserQuit", 0)
    ELSE IF ~IsInt(line) THEN Outcome("again", 0)
    ELSE IF IntValue(line) < lower \/ IntValue(line) > upper THEN Outcome("again", 0)
    ELSE Outcome("return", IntValue(line))

SelectionPrompt(line, ptms) == PromptBoundedInteger(line, 1, Len(ptms), QUIT_DONE)

TitlePrompt(line, titles) == PromptBoundedInteger(line, 0, Len(titles), QUIT_CANCEL)

TrackOfChoiceFirst(titles, n) == IF n = 0 THEN None ELSE Some(titles[1])

\* lines 375-378: what promptTrackSelect returns for the choice
TrackOfChoice(titles, n) == IF n = 0 THEN None ELSE Some(titles[n])

\* lines 392-393: the candidate after the edit
EditedCandidate(ptm, newTitle) ==
    PathTitleMatch(ptm.path, USER_DEF_MATCH, IF newTitle # None THEN newTitle[1] ELSE <<>>)

AfterUserQuitFallsThrough == "write"

\* lines 539-542: where the run goes when the review raised UserQuit
AfterUserQuit == "exit"

WritePathFirst(ptm) == pathTitleMatches[1].path

\* line 554: the file writeMetadata is called on
WritePath(ptm) == ptm.path

-----------------------------------------------------------------------------
(* Specification SpecMatch: one call of matchStrings on bounded inputs *)

MatchInit ==
    /\ string \in StringsUpTo(MatchAlphabet, MaxStrLen)
    /\ pattern \in StringsUpTo(MatchAlphabet, MaxStrLen)
    /\ result = NO_MATCH
    /\ mpc = "call"

MatchReturn ==
    /\ mpc = "call"
    /\ MatchStringsAsserts(string, pattern)
    /\ result' = MatchStrings(string, pattern)
    /\ mpc' = "returned"
    /\ UNCHANGED <<string, pattern, exceptMatch>>

MatchAssertionError ==
    /\ mpc = "call"
    /\ ~MatchStringsAsserts(string, pattern)
    /\ mpc' = "assertion_error"
    /\ UNCHANGED <<string, pattern, result, exceptMatch>>

MatchNext == MatchReturn \/ MatchAssertionError

MatchIdle ==
    /\ string = <<>>
    /\ pattern = <<>>
    /\ result = NO_MATCH
    /\ mpc = "idle"

-----------------------------------------------------------------------------
(* Specification SpecIdentify: one call of identifyTrackFromFilePath *)

IdentInit ==
    /\ stem \in IdentStems
    /\ tracklist \in TracklistsOf(IdentTitles, MaxTracks)
    /\ tIdx = 1
    /\ bestTitleGuess = None
    /\ bestMatch = NO_MATCH
    /\ ipc = "loop"

IdentifyTitle ==
    /\ ipc = "loop"
    /\ tIdx <= Len(tracklist)
    /\ TitleAsserts(LowercaseSkippedString(stem), tracklist[tIdx])
    /\ LET best == IdentifyStep(Best(bestTitleGuess, bestMatch), tracklist[tIdx],
                                LowercaseSkippedString(stem))
       IN  /\ bestTitleGuess' = best.bestTitleGuess
           /\ bestMatch' = best.bestMatch
    /\ tIdx' = tIdx + 1
    /\ UNCHANGED <<stem, tracklist, ipc, exceptIdent>>

IdentifyAssertionError ==
    /\ ipc = "loop"
    /\ tIdx <= Len(tracklist)
    /\ ~TitleAsserts(LowercaseSkippedString(stem), tracklist[tIdx])
    /\ ipc' = "assertion_error"
    /\ UNCHANGED <<stem, tracklist, tIdx, bestTitleGuess, bestMatch, exceptIdent>>

IdentifyReturn ==
    /\ ipc = "loop"
    /\ tIdx > Len(tracklist)
    /\ ipc' = "returned"
    /\ UNCHANGED <<stem, tracklist, tIdx, bestTitleGuess, bestMatch, exceptIdent>>

IdentNext == IdentifyTitle \/ IdentifyAssertionError \/ IdentifyReturn

IdentIdle ==
    /\ stem = <<>>
    /\ tracklist = <<>>
    /\ tIdx = 0
    /\ bestTitleGuess = None
    /\ bestMatch = NO_MATCH
    /\ ipc = "idle"

-----------------------------------------------------------------------------
(* Specification SpecWriteMetadata: one call of writeMetadata *)

WmTags == {"title", "album", "artist"}

DictsOver(tags, values) == UNION {[d -> values] : d \in SUBSET tags}

WmInit ==
    /\ wmStored \in DictsOver(WmTags, {<<GivenValue>>, <<OldValue>>, <<GivenValue, OldValue>>})
    /\ wmMetadata \in DictsOver(WmTags, {GivenValue, OldValue})
    /\ wmTagsToRemove \in {<<>>, <<"album">>, <<"artist">>, <<"album", "artist">>,
                            <<"title", "album">>}
    /\ wmOut = [doWrite |-> FALSE, saves |-> 0, stored |-> wmStored]
    /\ wpc = "call"

WmReturn ==
    /\ wpc = "call"
    /\ wmOut' = WriteMetadata(wmStored, wmMetadata, wmTagsToRemove)
    /\ wpc' = "returned"
    /\ UNCHANGED <<wmStored, wmMetadata, wmTagsToRemove, exceptWm>>

WmNext == WmReturn

WmIdle ==
    /\ wmStored = <<>>
    /\ wmMetadata = <<>>
    /\ wmTagsToRemove = <<>>
    /\ wmOut = [doWrite |-> FALSE, saves |-> 0, stored |-> <<>>]
    /\ wpc = "idle"

-----------------------------------------------------------------------------
(* applyMetadataToDirectory: meta.py 567-599, the mode main() runs when its  *)
(* input is a directory.  The tags of the options are applied to every file *)
(* found: no album file, no candidates, no review.                          *)

\* the printable ASCII characters but the grave accent, which a string of the
\* model cannot hold, in the order of their code points
CodePointOrder ==
    <<" ", "!", "\"", "#", "$", "%", "&", "'", "(", ")", "*", "+", ",", "-", ".", "/",
      "0", "1", "2", "3", "4", "5", "6", "7", "8", "9", ":", ";", "<", "=", ">", "?", "@">>
        \o UpperCaseLetters \o <<"[", "\\", "]", "^", "_">>
        \o LowerCaseLetters \o <<"{", "|", "}", "~">>

CodePoint(ch) == CHOOSE i \in 1..Len(CodePointOrder) : CodePointOrder[i] = ch

\* a < b on str
RECURSIVE StrLess(_, _)
StrLess(a, b) ==
    IF Len(b) = 0 THEN FALSE
    ELSE IF Len(a) = 0 THEN TRUE
    ELSE IF a[1] # b[1] THEN CodePoint(a[1]) < CodePoint(b[1])
    ELSE StrLess(Tail(a), Tail(b))

\* a < b on tuples of str
RECURSIVE PartsLess(_, _)
PartsLess(a, b) ==
    IF Len(b) = 0 THEN FALSE
    ELSE IF Len(a) = 0 THEN TRUE
    ELSE IF a[1] # b[1] THEN StrLess(a[1], b[1])
    ELSE PartsLess(Tail(a), Tail(b))

\* a < b on paths: their parts are compared
PathLess(a, b) == PartsLess(PathParts(a), PathParts(b))

\* sorted(audioPaths), line 581
RECURSIVE SortedPaths(_)
SortedPaths(ps) ==
    IF Len(ps) = 0 THEN ps
    ELSE LET first == CHOOSE i \in 1..Len(ps) : \A j \in 1..Len(ps) : ~PathLess(ps[j], ps[i])
             rest == [j \in 1..(Len(ps) - 1) |-> IF j < first THEN ps[j] ELSE ps[j + 1]]
         IN  <<ps[first]>> \o SortedPaths(rest)

\* any(options.values()), line 572
AnyOption(opts) == \E tag \in DOMAIN opts : OptBool(opts[tag])

\* lines 584-586: the metadata dict of one file, the option tags only
DirectoryMetadata(path, toChange) ==
    ResolveOptionsWithParent(toChange, ResolveParentDirectory(path))

-----------------------------------------------------------------------------
(* applyMetadataFromAlbumFileInteractively: meta.py 503-565, with the review *)
(* loop promptChanges: meta.py 380-402                                        *)

\* the album file has been parsed and the directory listed
AppInit ==
    /\ pc \in {"identify", "directory"}
    /\ album \in IF pc = "directory"
                 THEN {AlbumMetadata(<<>>, <<>>, <<>>)}
                 ELSE {AlbumMetadata(ArtistName, AlbumName, tl) :
                          tl \in TracklistsOf(AppTitles, MaxTracks)}
    /\ options \in AppOptions
    /\ paths \in UNION {FileLists(AppStems, n) : n \in 1..NumFiles} \cup {NestedFiles}
    /\ store = [f \in {paths[i] : i \in 1..Len(paths)} |-> OldTags]
    /\ tagsToRemove = <<>>
    /\ tagsToChange = <<>>
    /\ pathTitleMatches = <<>>
    /\ counter = 0
    /\ widx = 1
    /\ raised = "none"
    /\ raisedAt = "none"
    /\ choice = 0
    /\ trackChoice = -1
    /\ listing = <<>>
    /\ shown = NothingShown
    /\ writeCalls = {}
    /\ reports = <<>>
    /\ finalized = <<>>

\* lines 521-534, then the first listing (line 384)
IdentifyFiles ==
    /\ pc = "identify"
    /\ \A i \in 1..Len(paths) : IdentifyAsserts(PathStem(paths[i]), album.tracklist)
    /\ tagsToRemove' = ExtractTagsToRemove(ResolveAlbumMetadata(album, options))
    /\ tagsToChange' = ExtractTagsToChange(ResolveAlbumMetadata(album, options))
    /\ pathTitleMatches' = [i \in 1..Len(paths) |-> CandidateFor(paths[i], album.tracklist)]
    /\ listing' = DisplayMatchSummary(pathTitleMatches')
    /\ pc' = "select"
    /\ UNCHANGED <<options, album, paths, raised, raisedAt, choice, trackChoice, shown,
                   writeVars, exceptApp>>

\* the selection prompt (line 386) reads a line that ends the review: UserDone
SelectDone ==
    /\ pc = "select"
    /\ \E line \in Responses(Len(pathTitleMatches)) :
          SelectionPrompt(line, pathTitleMatches).kind = "UserDone"
    /\ raised' = "UserDone"
    /\ raisedAt' = "select"
    /\ counter' = 0
    /\ widx' = 1
    /\ pc' = "write"
    /\ UNCHANGED <<inputVars, pathTitleMatches, choice, trackChoice, listing, shown, store,
                   writeCalls, reports, exceptApp>>

\* the selection prompt reads the quit signal: UserQuit leaves promptChanges
SelectQuit ==
    /\ pc = "select"
    /\ \E line \in Responses(Len(pathTitleMatches)) :
          SelectionPrompt(line, pathTitleMatches).kind = "UserQuit"
    /\ raised' = "UserQuit"
    /\ raisedAt' = "select"
    /\ pc' = AfterUserQuit
    /\ UNCHANGED <<inputVars, pathTitleMatches, choice, trackChoice, listing, shown,
                   writeVars, exceptApp>>

\* the selection prompt reads a line it does not accept and prompts again
SelectAgain ==
    /\ pc = "select"
    /\ \E line \in Responses(Len(pathTitleMatches)) :
          SelectionPrompt(line, pathTitleMatches).kind = "again"
    /\ UNCHANGED <<appVars, exceptApp>>

\* the selection prompt returns a candidate's number; the candidate is
\* displayed (lines 388-389) and the title prompt opens
SelectCandidate ==
    /\ pc = "select"
    /\ \E line \in Responses(Len(pathTitleMatches)) :
          /\ SelectionPrompt(line, pathTitleMatches).kind = "return"
          /\ choice' = SelectionPrompt(line, pathTitleMatches).choice
    /\ shown' = DisplayPathTitleMatch(pathTitleMatches[choice'])
    /\ trackChoice' = -1
    /\ pc' = "title"
    /\ UNCHANGED <<inputVars, pathTitleMatches, raised, raisedAt, listing, writeVars,
                   exceptApp>>

\* the title prompt (line 374) reads an empty line: UserCancel, caught at line
\* 397; the loop lists the candidates again
TitleCancel ==
    /\ pc = "title"
    /\ \E line \in Responses(Len(album.tracklist)) :
          TitlePrompt(line, album.tracklist).kind = "UserCancel"
    /\ listing' = DisplayMatchSummary(pathTitleMatches)
    /\ pc' = "select"
    /\ UNCHANGED <<inputVars, pathTitleMatches, raised, raisedAt, choice, trackChoice,
                   shown, writeVars, exceptApp>>

\* the title prompt reads the quit signal
TitleQuit ==
    /\ pc = "title"
    /\ \E line \in Responses(Len(album.tracklist)) :
          TitlePrompt(line, album.tracklist).kind = "UserQuit"
    /\ raised' = "UserQuit"
    /\ raisedAt' = "title"
    /\ pc' = AfterUserQuit
    /\ UNCHANGED <<inputVars, pathTitleMatches, choice, trackChoice, listing, shown,
                   writeVars, exceptApp>>

\* the title prompt reads a line it does not accept and prompts again
TitleAgain ==
    /\ pc = "title"
    /\ \E line \in Responses(Len(album.tracklist)) :
          TitlePrompt(line, album.tracklist).kind = "again"
    /\ UNCHANGED <<appVars, exceptApp>>

\* the title prompt returns a number: the selected candidate is edited and
\* displayed (lines 391-394), and the loop lists the candidates again
TitleChoose ==
    /\ pc = "title"
    /\ \E line \in Responses(Len(album.tracklist)) :
          /\ TitlePrompt(line, album.tracklist).kind = "return"
          /\ trackChoice' = TitlePrompt(line, album.tracklist).choice
    /\ pathTitleMatches' =
          [pathTitleMatches EXCEPT ![choice] =
              EditedCandidate(@, TrackOfChoice(album.tracklist, trackChoice'))]
    /\ shown' = DisplayPathTitleMatch(pathTitleMatches'[choice])
    /\ listing' = DisplayMatchSummary(pathTitleMatches')
    /\ pc' = "select"
    /\ UNCHANGED <<inputVars, raised, raisedAt, choice, writeVars, exceptApp>>

\* an assertion of matchStrings fails while the files are identified
IdentifyFilesAssertionError ==
    /\ pc = "identify"
    /\ ~\A i \in 1..Len(paths) : IdentifyAsserts(PathStem(paths[i]), album.tracklist)
    /\ raised' = "AssertionError"
    /\ pc' = "exit"
    /\ UNCHANGED <<inputVars, pathTitleMatches, consoleVars, writeVars, exceptApp>>

\* lines 545-547: a candidate without a title is passed over
SkipFile ==
    /\ pc = "write"
    /\ widx <= Len(pathTitleMatches)
    /\ ~PtmBool(pathTitleMatches[widx])
    /\ widx' = widx + 1
    /\ UNCHANGED <<inputVars, pathTitleMatches, pc, raised, consoleVars, counter, store,
                   writeCalls, reports, exceptApp>>

\* lines 549-556: the metadata of a candidate with a title is written
WriteFile ==
    /\ pc = "write"
    /\ widx <= Len(pathTitleMatches)
    /\ PtmBool(pathTitleMatches[widx])
    /\ LET ptm == pathTitleMatches[widx]
           metadata == FileMetadata(ptm, album, tagsToChange)
           out == WriteMetadata(store[WritePath(ptm)], metadata, tagsToRemove)
       IN  /\ store' = [store EXCEPT ![WritePath(ptm)] = out.stored]
           /\ writeCalls' = writeCalls \cup {WritePath(ptm)}
           /\ counter' = IF out.doWrite THEN counter + 1 ELSE counter
    /\ widx' = widx + 1
    /\ UNCHANGED <<inputVars, pathTitleMatches, pc, raised, consoleVars, reports,
                   exceptApp>>

\* lines 558-565: the changed-file count is reported and the run ends
FinishRun ==
    /\ pc = "write"
    /\ widx > Len(pathTitleMatches)
    /\ reports' = Append(reports, counter)
    /\ pc' = "exit"
    /\ UNCHANGED <<inputVars, pathTitleMatches, raised, consoleVars, counter, widx, store,
                   writeCalls, exceptApp>>

\* lines 572-574: no option is set, nothing is done
DirectoryNothingToDo ==
    /\ pc = "directory"
    /\ ~AnyOption(options)
    /\ pc' = "exit"
    /\ UNCHANGED <<inputVars, pathTitleMatches, raised, consoleVars, writeVars, exceptApp>>

\* lines 576-581: the tags to remove and to change are taken from the options
\* as they are, and the files found are sorted
DirectoryStart ==
    /\ pc = "directory"
    /\ AnyOption(options)
    /\ tagsToRemove' = ExtractTagsToRemove(options)
    /\ tagsToChange' = ExtractTagsToChange(options)
    /\ paths' = SortedPaths(paths)
    /\ counter' = 0
    /\ widx' = 1
    /\ pc' = "directory_write"
    /\ UNCHANGED <<options, album, pathTitleMatches, raised, consoleVars, store, writeCalls,
                   reports, exceptApp>>

\* lines 582-590: the option tags are written to the next file
DirectoryWriteFile ==
    /\ pc = "directory_write"
    /\ widx <= Len(paths)
    /\ LET path == paths[widx]
           out == WriteMetadata(store[path], DirectoryMetadata(path, tagsToChange),
                                tagsToRemove)
       IN  /\ store' = [store EXCEPT ![path] = out.stored]
           /\ writeCalls' = writeCalls \cup {path}
           /\ counter' = IF out.doWrite THEN counter + 1 ELSE counter
    /\ widx' = widx + 1
    /\ UNCHANGED <<inputVars, pathTitleMatches, pc, raised, consoleVars, reports, exceptApp>>

\* lines 592-599: the changed-file count is reported and the run ends
DirectoryFinish ==
    /\ pc = "directory_write"
    /\ widx > Len(paths)
    /\ reports' = Append(reports, counter)
    /\ pc' = "exit"
    /\ UNCHANGED <<inputVars, pathTitleMatches, raised, consoleVars, counter, widx, store,
                   writeCalls, exceptApp>>

AppNext ==
    \/ IdentifyFiles \/ IdentifyFilesAssertionError
    \/ SelectDone \/ SelectQuit \/ SelectAgain \/ SelectCandidate
    \/ TitleCancel \/ TitleQuit \/ TitleAgain \/ TitleChoose
    \/ SkipFile \/ WriteFile \/ FinishRun
    \/ DirectoryNothingToDo \/ DirectoryStart \/ DirectoryWriteFile \/ DirectoryFinish

-----------------------------------------------------------------------------
(* The write phase alone (meta.py 544-565), from the end of the review, for *)
(* every combination of the options                                          *)

\* the review has ended with UserDone: every candidate has the title of some
\* track or none
WriteInit ==
    /\ album = AlbumMetadata(ArtistName, AlbumName, WriteTracklist)
    /\ options \in AllOptions
    /\ paths \in {WriteFiles(n) : n \in 1..NumFiles}
    /\ store \in [{paths[i] : i \in 1..Len(paths)} ->
                      {NoTags, OldTags, FirstTrackTags(album)}]
    /\ tagsToRemove = ExtractTagsToRemove(ResolveAlbumMetadata(album, options))
    /\ tagsToChange = ExtractTagsToChange(ResolveAlbumMetadata(album, options))
    /\ \E titles \in [1..Len(paths) ->
                        {album.tracklist[k] : k \in 1..Len(album.tracklist)} \cup {<<>>}] :
          pathTitleMatches =
              [i \in 1..Len(paths) |-> PathTitleMatch(paths[i], USER_DEF_MATCH, titles[i])]
    /\ counter = 0
    /\ widx = 1
    /\ pc = "write"
    /\ raised = "UserDone"
    /\ raisedAt = "select"
    /\ choice = 0
    /\ trackChoice = -1
    /\ listing = DisplayMatchSummary(pathTitleMatches)
    /\ shown = NothingShown
    /\ writeCalls = {}
    /\ reports = <<>>
    /\ finalized = <<>>

WriteNext == SkipFile \/ WriteFile \/ FinishRun

\* lines 453-454 and 554: audio.save() raises while the metadata of a candidate
\* with a title is written (save is called only when doWrite is set). Nothing
\* between writeMetadata and main catches the exception, so it ends the run at
\* this file: the files after it are not reached and no count is reported.
\* The failed save leaves the file as it was or as it was to be written.
WriteFileSaveFails ==
    /\ pc = "write"
    /\ widx <= Len(pathTitleMatches)
    /\ PtmBool(pathTitleMatches[widx])
    /\ LET ptm == pathTitleMatches[widx]
           metadata == FileMetadata(ptm, album, tagsToChange)
           out == WriteMetadata(store[WritePath(ptm)], metadata, tagsToRemove)
       IN  /\ out.saves = 1
           /\ store' \in {store, [store EXCEPT ![WritePath(ptm)] = out.stored]}
           /\ writeCalls' = writeCalls \cup {WritePath(ptm)}
    /\ raised' = "SaveError"
    /\ pc' = "exit"
    /\ UNCHANGED <<inputVars, pathTitleMatches, consoleVars, counter, widx, reports,
                   exceptApp>>

\* the write phase in which a save may fail
WriteFailsNext == SkipFile \/ WriteFile \/ WriteFileSaveFails \/ FinishRun

-----------------------------------------------------------------------------
(* The command run again on the same directory, with the same album file and *)
(* the same options (main, meta.py 686): every run identifies the files      *)
(* anew and goes through its own review.                                     *)

\* the files of the runs: one file, or two of which the second is in a
\* directory of its own
RunFiles == {<<Path(<<DirName>>, <<"f", "i", "l", "e", "1">> \o Mp3Suffix)>>,
             <<Path(<<DirName>>, <<"f", "i", "l", "e", "1">> \o Mp3Suffix),
               Path(<<DirName, SubDirName>>, <<"f", "i", "l", "e", "2">> \o Mp3Suffix)>>}

\* the first run starts, on files with any of the three tag contents
RunsInit ==
    /\ album = AlbumMetadata(ArtistName, AlbumName, WriteTracklist)
    /\ options \in AppOptions
    /\ paths \in RunFiles
    /\ store \in [{paths[i] : i \in 1..Len(paths)} ->
                      {NoTags, OldTags, FirstTrackTags(album)}]
    /\ tagsToRemove = <<>>
    /\ tagsToChange = <<>>
    /\ pathTitleMatches = <<>>
    /\ counter = 0
    /\ widx = 1
    /\ pc = "identify"
    /\ raised = "none"
    /\ raisedAt = "none"
    /\ choice = 0
    /\ trackChoice = -1
    /\ listing = <<>>
    /\ shown = NothingShown
    /\ writeCalls = {}
    /\ reports = <<>>
    /\ finalized = <<>>

\* a run has ended and the command is given again: the new run starts with
\* its locals as at line 503 and finds the files as the last run left them
RunAgain ==
    /\ pc = "exit"
    /\ Len(reports) < MaxRuns
    /\ finalized' = IF raised = "UserDone" THEN pathTitleMatches ELSE finalized
    /\ tagsToRemove' = <<>>
    /\ tagsToChange' = <<>>
    /\ pathTitleMatches' = <<>>
    /\ counter' = 0
    /\ widx' = 1
    /\ pc' = "identify"
    /\ raised' = "none"
    /\ raisedAt' = "none"
    /\ choice' = 0
    /\ trackChoice' = -1
    /\ listing' = <<>>
    /\ shown' = NothingShown
    /\ writeCalls' = {}
    /\ UNCHANGED <<options, album, paths, store, reports, matchVars, identVars, wmVars>>

RunsNext ==
    \/ IdentifyFiles
    \/ SelectDone \/ SelectQuit \/ SelectAgain \/ SelectCandidate
    \/ TitleCancel \/ TitleQuit \/ TitleAgain \/ TitleChoose
    \/ SkipFile \/ WriteFile \/ FinishRun
    \/ RunAgain

AppIdle ==
    /\ album = AlbumMetadata(<<>>, <<>>, <<>>)
    /\ options = <<>>
    /\ paths = <<>>
    /\ store = <<>>
    /\ tagsToRemove = <<>>
    /\ tagsToChange = <<>>
    /\ pathTitleMatches = <<>>
    /\ counter = 0
    /\ widx = 0
    /\ pc = "idle"
    /\ raised = "none"
    /\ raisedAt = "none"
    /\ choice = 0
    /\ trackChoice = -1
    /\ listing = <<>>
    /\ shown = NothingShown
    /\ writeCalls = {}
    /\ reports = <<>>
    /\ finalized = <<>>

-----------------------------------------------------------------------------
(* The specifications *)

InitMatch == MatchInit /\ IdentIdle /\ WmIdle /\ AppIdle

SpecMatch == InitMatch /\ [][MatchNext]_vars

InitIdentify == IdentInit /\ MatchIdle /\ WmIdle /\ AppIdle

SpecIdentify == InitIdentify /\ [][IdentNext]_vars

InitWriteMetadata == WmInit /\ MatchIdle /\ IdentIdle /\ AppIdle

SpecWriteMetadata == InitWriteMetadata /\ [][WmNext]_vars

Init == AppInit /\ MatchIdle /\ IdentIdle /\ WmIdle

Next == AppNext

Spec == Init /\ [][Next]_vars

InitWrite == WriteInit /\ MatchIdle /\ IdentIdle /\ WmIdle

SpecWrite == InitWrite /\ [][WriteNext]_vars

InitRuns == RunsInit /\ MatchIdle /\ IdentIdle /\ WmIdle

SpecRuns == InitRuns /\ [][RunsNext]_vars

InitWriteFails == WriteInit /\ MatchIdle /\ IdentIdle /\ WmIdle

SpecWriteFails == InitWriteFails /\ [][WriteFailsNext]_vars

-----------------------------------------------------------------------------
(* Claims about the matcher *)

\* number of positions at which the window at offset o differs from the pattern
Mismatches(str, pat, o) ==
    Cardinality({i \in 1..Len(pat) : str[o + i] # pat[i]})

Qualifying(str, pat) ==
    {o \in 0..(Len(str) - Len(pat)) : Mismatches(str, pat, o) <= 2}

ExactOffsets(str, pat) ==
    {o \in 0..(Len(str) - Len(pat)) : Mismatches(str, pat, o) = 0}

Lowest(S) == CHOOSE o \in S : \A p \in S : o <= p

\* C1: for a non-empty haystack and needle, matchStrings returns the Match that
\* starts at the lowest offset whose window differs from the needle in at most
\* 2 positions, with length len(needle); it returns NoMatch exactly when no
\* offset qualifies or the needle is longer than the haystack.
C1_LeftmostAcceptable ==
    mpc = "returned" =>
        IF Len(pattern) > Len(string) \/ Qualifying(string, pattern) = {}
        THEN result = NO_MATCH
        ELSE /\ result.start = Lowest(Qualifying(string, pattern))
             /\ result.length = Len(pattern)
             /\ ~MatchEq(result, NO_MATCH)
             /\ Len(result.misses) = Mismatches(string, pattern, result.start)

\* a returned match that is not the best one: a higher offset has fewer mismatches
C1_Witness ==
    /\ mpc = "returned"
    /\ ~MatchEq(result, NO_MATCH)
    /\ \E o \in Qualifying(string, pattern) :
          /\ o > result.start
          /\ Mismatches(string, pattern, o) < Len(result.misses)

\* a call that returns NoMatch although the needle fits in the haystack
C1_WitnessNoMatch ==
    /\ mpc = "returned"
    /\ Len(pattern) <= Len(string)
    /\ MatchEq(result, NO_MATCH)

\* C2 as stated: for an exact substring the Match has zero mismatches and starts
\* at an exact occurrence.
C2_ExactSubstringZeroMisses ==
    (mpc = "returned" /\ ExactOffsets(string, pattern) # {}) =>
        /\ Len(result.misses) = 0
        /\ result.start \in ExactOffsets(string, pattern)

\* C2 amended: for an exact substring the result is a Match (never NoMatch) of
\* length len(p) with at most 2 mismatches that starts at or before the first
\* exact occurrence; it is that occurrence, with zero mismatches, whenever no
\* lower offset has a window within 2 mismatches.
C2_ExactSubstringFound ==
    (mpc = "returned" /\ ExactOffsets(string, pattern) # {}) =>
        LET first == Lowest(ExactOffsets(string, pattern)) IN
        /\ ~MatchEq(result, NO_MATCH)
        /\ result.length = Len(pattern)
        /\ Len(result.misses) <= 2
        /\ result.start <= first
        /\ (result.start = first => Len(result.misses) = 0)
        /\ (\A o \in 0..(first - 1) : Mismatches(string, pattern, o) > 2)
              => (result.start = first /\ Len(result.misses) = 0)

\* an exact substring of length 3 found at its exact occurrence past offset 0
C2_Witness ==
    /\ mpc = "returned"
    /\ ExactOffsets(string, pattern) # {}
    /\ Len(pattern) >= 3
    /\ result.start > 0
    /\ result.start = Lowest(ExactOffsets(string, pattern))
    /\ Len(result.misses) = 0

-----------------------------------------------------------------------------
(* Claims about the candidate selector *)

\* the match of the i-th title of the tracklist against the file stem
TitleMatch(i) ==
    MatchStrings(LowercaseSkippedString(stem), LowercaseSkippedString(tracklist[i]))

\* the i-th title matches as long and with as many mismatches as an earlier title
TiedWithEarlier(i) ==
    /\ ~MatchEq(TitleMatch(i), NO_MATCH)
    /\ \E j \in 1..(i - 1) :
          /\ ~MatchEq(TitleMatch(j), NO_MATCH)
          /\ TitleMatch(j).length = TitleMatch(i).length
          /\ Len(TitleMatch(j).misses) = Len(TitleMatch(i).misses)

\* C3: a title that matches with the same length and the same number of
\* mismatches as an earlier title of the tracklist never replaces the best
\* candidate: the step that processes it leaves the best title and match as
\* they were.
C3_TieKeepsEarlier ==
    [][(ipc = "loop" /\ tIdx <= Len(tracklist) /\ TiedWithEarlier(tIdx))
          => (bestTitleGuess' = bestTitleGuess /\ bestMatch' = bestMatch)]_vars

\* two different titles tie, both were processed, and the earlier one is the best
C3_Witness ==
    /\ ipc = "returned"
    /\ \E i \in 1..Len(tracklist) :
          /\ TiedWithEarlier(i)
          /\ \E j \in 1..(i - 1) :
                /\ tracklist[j] # tracklist[i]
                /\ TitleMatch(j).length = TitleMatch(i).length
                /\ Len(TitleMatch(j).misses) = Len(TitleMatch(i).misses)
                /\ bestTitleGuess = Some(tracklist[j])

\* the positions of the titles that match the file stem
Matching == {i \in 1..Len(tracklist) : ~MatchEq(TitleMatch(i), NO_MATCH)}

MissCount(i) == Len(TitleMatch(i).misses)

\* among the matching titles those with the fewest mismatches, among those
\* the ones with the longest match
FewestMisses == {i \in Matching : \A j \in Matching : MissCount(i) <= MissCount(j)}

LongestOfFewest ==
    {i \in FewestMisses : \A j \in FewestMisses : TitleMatch(i).length >= TitleMatch(j).length}

\* C12: identifyTrackFromFilePath returns (None, NoMatch) when no title
\* matches; otherwise it returns the title, and its match, that has the
\* fewest mismatches among the matching titles, among those the longest
\* match, and among those the earliest position in the tracklist.
C12_ReturnsBestTitle ==
    ipc = "returned" =>
        IF Matching = {}
        THEN bestTitleGuess = None /\ MatchEq(bestMatch, NO_MATCH)
        ELSE /\ bestTitleGuess = Some(tracklist[Lowest(LongestOfFewest)])
             /\ bestMatch = TitleMatch(Lowest(LongestOfFewest))

\* the second title returned because it has fewer mismatches, although the
\* first title matches over a greater length
C12_Witness ==
    /\ ipc = "returned"
    /\ Len(tracklist) >= 2
    /\ Matching = 1..Len(tracklist)
    /\ TitleMatch(1).length > TitleMatch(2).length
    /\ MissCount(2) < MissCount(1)
    /\ bestTitleGuess = Some(tracklist[2])

-----------------------------------------------------------------------------
(* Claims about the review and the write phase *)

Candidates == 1..Len(pathTitleMatches)

\* the operator chose 0 for this candidate
SkippedByOperator(i) ==
    /\ pathTitleMatches[i].title = <<>>
    /\ pathTitleMatches[i].match = USER_DEF_MATCH

\* C4: writeMetadata is called on no file while the review is still running,
\* and on no file at all when the review ended with the quit signal, at
\* either prompt: the files keep the tags they had and nothing is reported
\* as changed.
C4_QuitWritesNothing ==
    (pc \in {"identify", "select", "title"} \/ raised = "UserQuit") =>
        /\ writeCalls = {}
        /\ reports = <<>>
        /\ \A f \in DOMAIN store : store[f] = OldTags

\* the quit signal given at the title prompt after a completed edit, with a
\* candidate that has a title
C4_Witness ==
    /\ raised = "UserQuit"
    /\ raisedAt = "title"
    /\ pc = "exit"
    /\ \E i \in Candidates : pathTitleMatches[i].match = USER_DEF_MATCH
    /\ \E i \in Candidates : PtmBool(pathTitleMatches[i])
    /\ tagsToRemove # <<>>

\* C5: the step in which the title prompt returns k for the selected
\* candidate i leaves candidate i with the match ManualMatch and the title ""
\* when k = 0 and tracklist[k-1] otherwise, and changes no other candidate.
C5_EditSetsChosenTitle ==
    [][(pc = "title" /\ trackChoice' >= 0) =>
          /\ trackChoice' \in 0..Len(album.tracklist)
          /\ Len(pathTitleMatches') = Len(pathTitleMatches)
          /\ pathTitleMatches'[choice].match = USER_DEF_MATCH
          /\ pathTitleMatches'[choice].title =
                IF trackChoice' = 0 THEN <<>> ELSE album.tracklist[trackChoice']
          /\ \A j \in Candidates : j # choice => pathTitleMatches'[j] = pathTitleMatches[j]]_vars

\* the second track chosen for one candidate while another keeps its automatic match
C5_Witness ==
    /\ pc = "select"
    /\ trackChoice = 2
    /\ pathTitleMatches[choice].title = album.tracklist[2]
    /\ album.tracklist[2] # album.tracklist[1]
    /\ \E j \in Candidates :
          /\ j # choice
          /\ PtmBool(pathTitleMatches[j])
          /\ pathTitleMatches[j].match # USER_DEF_MATCH

\* C6: a candidate the operator skipped with 0 is displayed as "will remain
\* unchanged" in the confirmation after the edit and in every listing.
C6_SkippedShownUnchanged ==
    /\ \A i \in Candidates :
          (i <= Len(listing) /\ SkippedByOperator(i))
              => listing[i].form = "will remain unchanged"
    /\ (pc = "select" /\ trackChoice = 0) => shown.form = "will remain unchanged"

\* C7: once the review has ended with UserDone, no candidate without a title
\* (never matched, or skipped by the operator) has writeMetadata called on its
\* file, and its file keeps every tag it had.
C7_EmptyTitleUntouched ==
    raised = "UserDone" =>
        \A i \in Candidates :
            pathTitleMatches[i].title = <<>> =>
                /\ pathTitleMatches[i].path \notin writeCalls
                /\ store[pathTitleMatches[i].path] = OldTags

\* a finished write phase with tags to remove that wrote one file and passed
\* over a file the operator skipped, which carries the tags to remove
C7_Witness ==
    /\ pc = "exit"
    /\ raised = "UserDone"
    /\ tagsToRemove # <<>>
    /\ writeCalls # {}
    /\ \E i \in Candidates :
          /\ SkippedByOperator(i)
          /\ \A k \in 1..Len(tagsToRemove) :
                tagsToRemove[k] \in DOMAIN store[pathTitleMatches[i].path]

\* the candidates of this run are those of the last run that wrote: the same
\* files with the same titles
SameCandidates ==
    /\ Len(finalized) = Len(pathTitleMatches)
    /\ \A i \in 1..Len(finalized) :
          /\ finalized[i].path = pathTitleMatches[i].path
          /\ finalized[i].title = pathTitleMatches[i].title

\* C8: a write phase that goes over the same files with the same finalized
\* candidates, album and options as the write phase of the run before it
\* changes no file: its count stays 0 and 0 is what it reports, whatever
\* the tags of the files were at first.
C8_SecondRunChangesNothing ==
    (raised = "UserDone" /\ pc \in {"write", "exit"} /\ finalized # <<>> /\ SameCandidates) =>
        /\ counter = 0
        /\ pc = "exit" => reports[Len(reports)] = 0

\* two runs over two files with the same candidates, the first of which
\* changed both files and removed tags, the second none
C8_Witness ==
    /\ pc = "exit"
    /\ raised = "UserDone"
    /\ SameCandidates
    /\ Len(reports) = 2
    /\ Len(paths) = 2
    /\ reports[1] = 2
    /\ tagsToRemove # <<>>
    /\ writeCalls = {paths[i] : i \in 1..Len(paths)}
    /\ \E i \in Candidates : pathTitleMatches[i].match = USER_DEF_MATCH

\* some planned value differs from the first stored value of its tag
SomeValueDiffers ==
    \E tag \in DOMAIN wmMetadata :
        tag \notin DOMAIN wmStored \/ wmStored[tag][1] # wmMetadata[tag]

\* some tag to remove is stored
SomeRemovablePresent ==
    \E k \in 1..Len(wmTagsToRemove) : wmTagsToRemove[k] \in DOMAIN wmStored

\* C9: writeMetadata calls save at most once, and only when a planned value
\* differs from the stored one or a tag to remove is present; otherwise it
\* returns False, does not call save and leaves the file as it was.
C9_SaveOnlyOnDifference ==
    wpc = "returned" =>
        /\ wmOut.saves <= 1
        /\ wmOut.saves = 1 => (SomeValueDiffers \/ SomeRemovablePresent)
        /\ ~(SomeValueDiffers \/ SomeRemovablePresent) =>
              (wmOut.doWrite = FALSE /\ wmOut.saves = 0 /\ wmOut.stored = wmStored)

\* a call with planned values, all stored already, and tags to remove, none
\* present: it returns False
C9_Witness ==
    /\ wpc = "returned"
    /\ wmOut.doWrite = FALSE
    /\ Cardinality(DOMAIN wmMetadata) >= 2
    /\ Len(wmTagsToRemove) >= 1

\* C10: a tag whose option is remove-tag is among the tags to remove and is
\* in the metadata set for no file, and no tag to remove is in the metadata
\* set for any file.
C10_RemoveExcludesSet ==
    \A i \in Candidates :
        PtmBool(pathTitleMatches[i]) =>
            LET metadata == FileMetadata(pathTitleMatches[i], album, tagsToChange) IN
            /\ \A tag \in DOMAIN options :
                  options[tag].kind = "remove" =>
                      /\ \E k \in 1..Len(tagsToRemove) : tagsToRemove[k] = tag
                      /\ tag \notin DOMAIN metadata
            /\ \A k \in 1..Len(tagsToRemove) : tagsToRemove[k] \notin DOMAIN metadata

\* the album tag removed from a written file although the album has a title,
\* with the other two tags set from the album and from the options
C10_Witness ==
    /\ pc = "exit"
    /\ options["album"].kind = "remove"
    /\ options["artist"].kind = "none"
    /\ options["albumartist"].kind = "str"
    /\ Len(album.album) > 0
    /\ Len(reports) = 1
    /\ reports[1] >= 1
    /\ \E f \in writeCalls :
          /\ "album" \notin DOMAIN store[f]
          /\ "artist" \in DOMAIN store[f]
          /\ store[f]["artist"] = <<album.artist>>

\* C13: the candidate for which the operator chose tracklist entry k (1-based)
\* has tracknumber k in its write plan, and k is the tracknumber its file
\* stores once the write phase has passed it, also when the title of entry k
\* appears at an earlier position of the tracklist.
C13_ChosenEntryIsTracknumber ==
    (pc \in {"select", "write", "exit"} /\ raised \in {"none", "UserDone"}
          /\ trackChoice >= 1) =>
        /\ FileMetadata(pathTitleMatches[choice], album, tagsToChange)["tracknumber"]
              = Str(trackChoice)
        /\ (raised = "UserDone" /\ widx > choice) =>
              store[pathTitleMatches[choice].path]["tracknumber"] = <<Str(trackChoice)>>

-----------------------------------------------------------------------------
(* Claims about a failing save *)

\* the candidates after the one whose save failed that have a title
LaterTitled == {i \in Candidates : i > widx /\ PtmBool(pathTitleMatches[i])}

\* C11: when the save of one file has failed, every later file with a title
\* still has writeMetadata called on it by the time the run ends.
C11_FailureDoesNotBlockLaterFiles ==
    (pc = "exit" /\ raised = "SaveError") =>
        \A i \in LaterTitled : pathTitleMatches[i].path \in writeCalls

====
